---- MODULE Spec2Model ----
(***************************************************************************)
(* Model of the trade signal server's quota accounting and deduplicated    *)
(* signal delivery (crud.latest_signals_for_token and its helpers).        *)
(*                                                                         *)
(* The relational store is the state: users, API tokens, subscriptions,    *)
(* trade signals and signal reads (delivery records).  An Optional value   *)
(* is a sequence: <<>> is None, <<x>> is x.                                *)
(***************************************************************************)
EXTENDS Integers, Sequences, FiniteSets, Bags, TLC

VARIABLES
    users,        \* User rows: id -> [username, api_key, plan, daily_quota, is_active]
    tokens,       \* APIToken rows: token -> [user_id, plan, is_active, expires_at]
    subs,         \* Subscription rows: <<receiver_id, sender_id>>
    signals,      \* TradeSignal rows; the id is the index
    reads,        \* committed SignalRead rows, a bag
    now,          \* the UTC clock, in ticks
    uniqIndex,    \* whether the store has the unique index on (token_hash, signal_id)
    sess          \* the open request sessions (transactions), per worker

vars == <<users, tokens, subs, signals, reads, now, uniqIndex, sess>>

-----------------------------------------------------------------------------
(* Bounds of the model *)

MaxSignals == 3
MaxNow == 2
TicksPerDay == 2
ExpiryTick == TicksPerDay - 1

(* Program constants *)

HistoryWindow == 200

-----------------------------------------------------------------------------
(* Small input sets *)

SenderId == 1
R1 == 2
R2 == 3
UserIds == {SenderId, R1, R2}

TokenStrings == {"t1", "t2", "k2", "bad"}
SignalActions == {"buy", "close"}
Limits == {1, MaxSignals}
Workers == {1, 2}

None == <<>>
Some(x) == <<x>>

Max(a, b) == IF a >= b THEN a ELSE b
Min(a, b) == IF a <= b THEN a ELSE b

-----------------------------------------------------------------------------
(* Plans and quotas *)

PLAN_DEFAULTS ==
    [free   |-> [daily_quota |-> Some(1), unlimited |-> FALSE],
     silver |-> [daily_quota |-> Some(3), unlimited |-> FALSE],
     gold   |-> [daily_quota |-> None,    unlimited |-> TRUE]]

\* (plan or "").strip().lower(), as far as the inputs of the model go
StripLower(p) ==
    CASE p = None -> ""
      [] p = Some("GOLD ") -> "gold"
      [] OTHER -> p[1]

normalize_plan(p) ==
    LET q == StripLower(p) IN IF q \in DOMAIN PLAN_DEFAULTS THEN q ELSE "free"

plan_limits(p) == PLAN_DEFAULTS[normalize_plan(p)]

-----------------------------------------------------------------------------
(* Helpers *)

utc_now == now

hash_token_for_read(token) == <<"sha256", token>>

\* a variant that counts the last 24 hours instead of the UTC day
start_of_utc_day_Rolling(ts) == ts - TicksPerDay

start_of_utc_day(ts) == (ts \div TicksPerDay) * TicksPerDay

IsActionable(action) == action \in {"buy", "sell"}

\* the rows of a bag of SignalRead rows, each copy counted
RECURSIVE CountRows(_, _)
CountRows(rd, S) ==
    IF S = {} THEN 0
    ELSE LET x == CHOOSE y \in S : TRUE
         IN CopiesIn(x, rd) + CountRows(rd, S \ {x})

-----------------------------------------------------------------------------
(* Users and tokens *)

user_by_api_token(token) ==
    IF /\ token \in DOMAIN tokens
       /\ tokens[token].is_active
       /\ users[tokens[token].user_id].is_active
    THEN Some(tokens[token].user_id)
    ELSE LET m == {u \in UserIds : users[u].api_key = token /\ users[u].is_active}
         IN IF m = {} THEN None ELSE Some(CHOOSE u \in m : TRUE)

token_record(token) ==
    IF token \in DOMAIN tokens THEN Some(tokens[token]) ELSE None

\* the APIToken table after upsert_token_for_user
upsert_token_for_user(user, token, plan, is_active) ==
    LET old == IF token \in DOMAIN tokens
               THEN tokens[token]
               ELSE [user_id |-> user, plan |-> None, is_active |-> TRUE,
                     expires_at |-> None]
        p1 == IF plan # None THEN [old EXCEPT !.plan = Some(normalize_plan(plan))]
              ELSE old
        p2 == IF is_active # None THEN [p1 EXCEPT !.is_active = is_active[1]]
              ELSE p1
    IN [t \in DOMAIN tokens \cup {token} |-> IF t = token THEN p2 ELSE tokens[t]]

subscriptions_for_receiver(receiver) == {s \in subs : s[1] = receiver}

-----------------------------------------------------------------------------
(* Quota checking; rd is the bag of SignalRead rows the session sees *)

count_actionable_opens_today(rd, receiver) ==
    LET today_utc == start_of_utc_day(utc_now)
    IN Cardinality({r.signal_id : r \in
           {x \in BagToSet(rd) :
               /\ x.receiver_id = receiver
               /\ x.read_at >= today_utc
               /\ x.signal_id \in DOMAIN signals
               /\ IsActionable(signals[x.signal_id].action)}})

\* a variant that forgets the day filter of the per-token count
token_daily_usage_today_AllTime(rd, receiver, token_hash) ==
    Cardinality({r.signal_id : r \in
           {x \in BagToSet(rd) :
               /\ x.receiver_id = receiver
               /\ x.token_hash = token_hash
               /\ x.signal_id \in DOMAIN signals
               /\ IsActionable(signals[x.signal_id].action)}})

token_daily_usage_today(rd, receiver, token_hash) ==
    LET today_utc == start_of_utc_day(utc_now)
    IN Cardinality({r.signal_id : r \in
           {x \in BagToSet(rd) :
               /\ x.receiver_id = receiver
               /\ x.token_hash = token_hash
               /\ x.read_at >= today_utc
               /\ x.signal_id \in DOMAIN signals
               /\ IsActionable(signals[x.signal_id].action)}})

effective_quota_for_token(receiver, bearer_token) ==
    LET tok == token_record(bearer_token)
        limits == IF tok # None THEN plan_limits(tok[1].plan)
                  ELSE plan_limits(Some(users[receiver].plan))
    IN <<limits.unlimited, limits.daily_quota>>

-----------------------------------------------------------------------------
(* Reading signals *)

_was_read_by_token(rd, receiver, signal_id, token_hash) ==
    \E x \in BagToSet(rd) :
        /\ x.signal_id = signal_id
        /\ x.receiver_id = receiver
        /\ x.token_hash = token_hash

NewRead(receiver, signal_id, token_hash) ==
    [signal_id |-> signal_id, receiver_id |-> receiver,
     token_hash |-> token_hash, read_at |-> utc_now]

\* a variant that inserts without the existence check
_record_read_once_Always(rd, receiver, signal_id, token_hash) ==
    rd (+) SetToBag({NewRead(receiver, signal_id, token_hash)})

\* a variant that refreshes the timestamp of a record that exists
_record_read_once_Touch(rd, receiver, signal_id, token_hash) ==
    LET same == {x \in BagToSet(rd) :
                    /\ x.signal_id = signal_id
                    /\ x.receiver_id = receiver
                    /\ x.token_hash = token_hash}
        kept == [x \in BagToSet(rd) \ same |-> rd[x]]
    IN kept (+) SetToBag({NewRead(receiver, signal_id, token_hash)})

\* the rows the session sees after _record_read_once
_record_read_once(rd, receiver, signal_id, token_hash) ==
    IF _was_read_by_token(rd, receiver, signal_id, token_hash)
    THEN rd
    ELSE rd (+) SetToBag({NewRead(receiver, signal_id, token_hash)})

\* ids of the signals of the followed senders, newest first, cut to the window
RECURSIVE DescIds(_, _)
DescIds(sender_ids, i) ==
    IF i = 0 THEN <<>>
    ELSE IF signals[i].user_id \in sender_ids
         THEN <<i>> \o DescIds(sender_ids, i - 1)
         ELSE DescIds(sender_ids, i - 1)

Take(s, n) == IF Len(s) <= n THEN s ELSE SubSeq(s, 1, n)

\* a variant that takes the candidates from every sender
CandidateSignals_AllSenders(sender_ids, limit) ==
    Take(DescIds(UserIds, Len(signals)), Max(HistoryWindow, limit))

CandidateSignals(sender_ids, limit) ==
    Take(DescIds(sender_ids, Len(signals)), Max(HistoryWindow, limit))

\* the unlimited branch: record and deliver signals[:limit]
RECURSIVE UnlimitedLoop(_, _, _, _, _)
UnlimitedLoop(rd, cands, i, receiver, token_hash) ==
    IF i > Len(cands) THEN rd
    ELSE UnlimitedLoop(_record_read_once(rd, receiver, cands[i], token_hash),
                       cands, i + 1, receiver, token_hash)

\* a variant of the loop body that puts every signal through the quota gate
FiniteBody_GateAll(st, s, receiver, token_hash, limit) ==
    IF st.remaining <= 0
    THEN st
    ELSE IF _was_read_by_token(st.rd, receiver, s, token_hash)
         THEN [st EXCEPT !.delivered = Append(@, s)]
         ELSE [st EXCEPT
                 !.rd = _record_read_once(@, receiver, s, token_hash),
                 !.actionable_seen = @ + 1,
                 !.remaining = @ - 1,
                 !.delivered = Append(@, s),
                 !.stop = Len(st.delivered) + 1 >= limit]

\* a variant of the loop body that leaves a delivery record on a quota skip
FiniteBody_RecordSkipped(st, s, receiver, token_hash, limit) ==
    IF IsActionable(signals[s].action)
    THEN IF st.remaining <= 0
         THEN [st EXCEPT !.rd = _record_read_once(@, receiver, s, token_hash)]
         ELSE IF _was_read_by_token(st.rd, receiver, s, token_hash)
              THEN [st EXCEPT !.delivered = Append(@, s)]
              ELSE [st EXCEPT
                      !.rd = _record_read_once(@, receiver, s, token_hash),
                      !.actionable_seen = @ + 1,
                      !.remaining = @ - 1,
                      !.delivered = Append(@, s),
                      !.stop = Len(st.delivered) + 1 >= limit]
    ELSE [st EXCEPT
            !.rd = _record_read_once(@, receiver, s, token_hash),
            !.delivered = Append(@, s),
            !.stop = Len(st.delivered) + 1 >= limit]

\* one pass of the body of the finite plan's loop, on the loop's state
\* st = [rd, remaining, actionable_seen, delivered, stop]
FiniteBody(st, s, receiver, token_hash, limit) ==
    IF IsActionable(signals[s].action)
    THEN IF st.remaining <= 0
         THEN st
         ELSE IF _was_read_by_token(st.rd, receiver, s, token_hash)
              THEN [st EXCEPT !.delivered = Append(@, s)]
              ELSE [st EXCEPT
                      !.rd = _record_read_once(@, receiver, s, token_hash),
                      !.actionable_seen = @ + 1,
                      !.remaining = @ - 1,
                      !.delivered = Append(@, s),
                      !.stop = Len(st.delivered) + 1 >= limit]
    ELSE [st EXCEPT
            !.rd = _record_read_once(@, receiver, s, token_hash),
            !.delivered = Append(@, s),
            !.stop = Len(st.delivered) + 1 >= limit]

RECURSIVE FiniteLoop(_, _, _, _, _, _)
FiniteLoop(st, cands, i, receiver, token_hash, limit) ==
    IF i > Len(cands) \/ st.stop THEN st
    ELSE FiniteLoop(FiniteBody(st, cands[i], receiver, token_hash, limit),
                    cands, i + 1, receiver, token_hash, limit)

\* a variant that enforces the per-token count alone
RemainingAtStart_PerTokenOnly(quota, total_used_today, token_used_today) ==
    Max(quota - token_used_today, 0)

\* the remaining quota the finite branch starts from
RemainingAtStart(quota, total_used_today, token_used_today) ==
    LET remaining_total == Max(quota - total_used_today, 0)
        remaining_for_token == Max(quota - token_used_today, 0)
    IN Min(remaining_total, remaining_for_token)

\* [ok, receiver, delivered, meta, rd, candidates]: the result and the rows flushed
latest_signals_for_token(rd, receiver_token, limit) ==
    LET r == user_by_api_token(receiver_token) IN
    IF r = None \/ ~users[r[1]].is_active
    THEN [ok |-> FALSE, error |-> "Invalid or inactive API token", rd |-> rd]
    ELSE
    LET receiver == r[1]
        sender_ids == {s[2] : s \in subscriptions_for_receiver(receiver)}
    IN
    IF sender_ids = {}
    THEN [ok |-> TRUE, receiver |-> receiver, delivered |-> <<>>,
          candidates |-> <<>>, rd |-> rd,
          meta |-> [plan |-> users[receiver].plan, unlimited |-> FALSE,
                    daily_quota |-> Some(0), remaining |-> Some(0)]]
    ELSE
    LET q == effective_quota_for_token(receiver, receiver_token)
        unlimited == q[1]
        daily_quota == q[2]
        token_hash == hash_token_for_read(receiver_token)
        cands == CandidateSignals(sender_ids, limit)
        total_used_today == count_actionable_opens_today(rd, receiver)
        token_used_today == token_daily_usage_today(rd, receiver, token_hash)
    IN
    IF unlimited
    THEN [ok |-> TRUE, receiver |-> receiver,
          delivered |-> Take(cands, limit), candidates |-> cands,
          rd |-> UnlimitedLoop(rd, Take(cands, limit), 1, receiver, token_hash),
          meta |-> [plan |-> "gold", unlimited |-> TRUE,
                    daily_quota |-> None, remaining |-> None,
                    used_today |-> total_used_today,
                    token_used_today |-> token_used_today]]
    ELSE
    LET quota == IF daily_quota = None THEN 0 ELSE daily_quota[1]
        remaining == RemainingAtStart(quota, total_used_today, token_used_today)
        fin == FiniteLoop([rd |-> rd, remaining |-> remaining,
                           actionable_seen |-> 0, delivered |-> <<>>,
                           stop |-> FALSE],
                          cands, 1, receiver, token_hash, limit)
    IN [ok |-> TRUE, receiver |-> receiver,
        delivered |-> fin.delivered, candidates |-> cands, rd |-> fin.rd,
        meta |-> [plan |-> users[receiver].plan, unlimited |-> FALSE,
                  daily_quota |-> Some(quota), remaining |-> Some(fin.remaining),
                  used_today |-> total_used_today + fin.actionable_seen,
                  token_used_today |-> token_used_today + fin.actionable_seen]]

-----------------------------------------------------------------------------
(* The requests, each a whole transaction *)

IdleSession == [pc |-> "idle", pending |-> EmptyBag, inserted |-> {}]

Init ==
    /\ \E p \in {"free", "silver", "gold"} :
         users = [u \in UserIds |->
                    IF u = SenderId
                    THEN [username |-> "farm_robot", api_key |-> "k0",
                          plan |-> "free", daily_quota |-> None,
                          is_active |-> TRUE]
                    ELSE IF u = R1
                    THEN [username |-> "r1", api_key |-> "k1",
                          plan |-> p, daily_quota |-> None,
                          is_active |-> TRUE]
                    ELSE [username |-> "r2", api_key |-> "k2",
                          plan |-> "free", daily_quota |-> None,
                          is_active |-> FALSE]]
    /\ tokens = [t \in {"t1"} |->
                   [user_id |-> R1, plan |-> Some(users[R1].plan),
                    is_active |-> TRUE, expires_at |-> Some(ExpiryTick)]]
    /\ subs = {}
    /\ signals = <<>>
    /\ reads = EmptyBag
    /\ now = 0
    /\ uniqIndex = TRUE
    /\ sess = [w \in Workers |-> IdleSession]

\* a fetch: latest_signals_for_token, then the caller's commit
Fetch(token, limit) ==
    LET res == latest_signals_for_token(reads, token, limit) IN
    /\ reads' = res.rd
    /\ UNCHANGED <<users, tokens, subs, signals, now, uniqIndex, sess>>

\* the sender publishes a signal: create_signal
Publish(action) ==
    /\ Len(signals) < MaxSignals
    /\ signals' = Append(signals, [user_id |-> SenderId, action |-> action])
    /\ UNCHANGED <<users, tokens, subs, reads, now, uniqIndex, sess>>

\* admin_issue_token for a user name, a token and a plan
IssueToken(name, token, plan) ==
    LET m == {u \in UserIds : users[u].username = name} IN
    IF m = {}
    THEN UNCHANGED vars
    ELSE LET u == CHOOSE x \in m : TRUE IN
         /\ tokens' = upsert_token_for_user(u, token, Some(plan), Some(TRUE))
         /\ users' = [users EXCEPT ![u].plan = normalize_plan(Some(plan))]
         /\ UNCHANGED <<subs, signals, reads, now, uniqIndex, sess>>

\* a token is revoked: upsert_token_for_user(..., is_active=False)
RevokeToken(token) ==
    /\ token \in DOMAIN tokens
    /\ tokens[token].is_active
    /\ tokens' = upsert_token_for_user(tokens[token].user_id, token, None, Some(FALSE))
    /\ UNCHANGED <<users, subs, signals, reads, now, uniqIndex, sess>>

\* admin_subscribe
Subscribe(receiver, sender) ==
    /\ subs' = subs \cup {<<receiver, sender>>}
    /\ UNCHANGED <<users, tokens, signals, reads, now, uniqIndex, sess>>

\* time passes
Tick ==
    /\ now < MaxNow
    /\ now' = now + 1
    /\ UNCHANGED <<users, tokens, subs, signals, reads, uniqIndex, sess>>

Next ==
    \/ \E t \in TokenStrings, l \in Limits : Fetch(t, l)
    \/ \E a \in SignalActions : Publish(a)
    \/ \E n \in {"r1", "nobody"} : IssueToken(n, "t2", users[R1].plan)
    \/ RevokeToken("t1")
    \/ Subscribe(R1, SenderId)
    \/ Tick

Spec == Init /\ [][Next]_vars

\* the same requests for a receiver whose User row carries a quota override
\* (User.daily_quota, set outside the requests modelled here)
OverrideQuotas == {0, 2}

InitOverride ==
    /\ \E p \in {"free", "silver"}, o \in OverrideQuotas :
         users = [u \in UserIds |->
                    IF u = SenderId
                    THEN [username |-> "farm_robot", api_key |-> "k0",
                          plan |-> "free", daily_quota |-> None,
                          is_active |-> TRUE]
                    ELSE IF u = R1
                    THEN [username |-> "r1", api_key |-> "k1",
                          plan |-> p, daily_quota |-> Some(o),
                          is_active |-> TRUE]
                    ELSE [username |-> "r2", api_key |-> "k2",
                          plan |-> "free", daily_quota |-> None,
                          is_active |-> FALSE]]
    /\ tokens = [t \in {"t1"} |->
                   [user_id |-> R1, plan |-> Some(users[R1].plan),
                    is_active |-> TRUE, expires_at |-> Some(ExpiryTick)]]
    /\ subs = {}
    /\ signals = <<>>
    /\ reads = EmptyBag
    /\ now = 0
    /\ uniqIndex = TRUE
    /\ sess = [w \in Workers |-> IdleSession]

SpecOverride == InitOverride /\ [][Next]_vars

\* the same requests with plan changes: admin_issue_token writes a plan on the
\* receiver's present credential or on a new one
PlanNames == {"free", "silver", "gold"}

InitPlan ==
    /\ users = [u \in UserIds |->
                  IF u = SenderId
                  THEN [username |-> "farm_robot", api_key |-> "k0",
                        plan |-> "free", daily_quota |-> None,
                        is_active |-> TRUE]
                  ELSE IF u = R1
                  THEN [username |-> "r1", api_key |-> "k1",
                        plan |-> "free", daily_quota |-> None,
                        is_active |-> TRUE]
                  ELSE [username |-> "r2", api_key |-> "k2",
                        plan |-> "free", daily_quota |-> None,
                        is_active |-> FALSE]]
    /\ tokens = [t \in {"t1"} |->
                   [user_id |-> R1, plan |-> Some("free"),
                    is_active |-> TRUE, expires_at |-> Some(ExpiryTick)]]
    /\ subs = {<<R1, SenderId>>}
    /\ signals = <<>>
    /\ reads = EmptyBag
    /\ now = 0
    /\ uniqIndex = TRUE
    /\ sess = [w \in Workers |-> IdleSession]

NextPlan ==
    \/ \E t \in {"t1", "t2"}, l \in Limits : Fetch(t, l)
    \/ Publish("buy")
    \/ \E t \in {"t1", "t2"}, p \in PlanNames : IssueToken("r1", t, p)
    \/ Tick

SpecPlan == InitPlan /\ [][NextPlan]_vars

\* a receiver that keeps polling with one credential and a fixed limit: each
\* poll is a whole fetch in a session of its own, closed before the next poll
InitPoll ==
    /\ \E p \in {"silver", "gold"} :
         users = [u \in UserIds |->
                    IF u = SenderId
                    THEN [username |-> "farm_robot", api_key |-> "k0",
                          plan |-> "free", daily_quota |-> None,
                          is_active |-> TRUE]
                    ELSE IF u = R1
                    THEN [username |-> "r1", api_key |-> "k1",
                          plan |-> p, daily_quota |-> None,
                          is_active |-> TRUE]
                    ELSE [username |-> "r2", api_key |-> "k2",
                          plan |-> "free", daily_quota |-> None,
                          is_active |-> FALSE]]
    /\ tokens = [t \in {"t1"} |->
                   [user_id |-> R1, plan |-> Some(users[R1].plan),
                    is_active |-> TRUE, expires_at |-> Some(ExpiryTick)]]
    /\ subs = {<<R1, SenderId>>}
    /\ signals = <<>>
    /\ reads = EmptyBag
    /\ now = 0
    /\ uniqIndex = TRUE
    /\ \E l \in Limits :
         sess = [w \in Workers |->
                   [pc |-> "idle", limit |-> l, pending |-> EmptyBag,
                    inserted |-> {}]]

Poll ==
    /\ sess[1].pc = "idle"
    /\ reads' = latest_signals_for_token(reads, "t1", sess[1].limit).rd
    /\ sess' = [sess EXCEPT ![1].pc = "done"]
    /\ UNCHANGED <<users, tokens, subs, signals, now, uniqIndex>>

\* get_db closes the session; the receiver's next request opens another
ClosePoll ==
    /\ sess[1].pc = "done"
    /\ sess' = [sess EXCEPT ![1].pc = "idle"]
    /\ UNCHANGED <<users, tokens, subs, signals, reads, now, uniqIndex>>

NextPoll ==
    \/ Poll
    \/ ClosePoll
    \/ \E a \in SignalActions : Publish(a)

SpecPoll ==
    InitPoll /\ [][NextPoll]_vars /\ WF_vars(Poll) /\ WF_vars(ClosePoll)

-----------------------------------------------------------------------------
(* The HTTP fetch endpoints GET /signals/latest and GET /signals.  The crud  *)
(* functions they call are not part of crud.py as given; each is modelled    *)
(* from the specification's description of it.                               *)

\* the APIToken table after the purge of expired credentials
purge_expired_tokens(tk) ==
    [t \in {x \in DOMAIN tk :
               tk[x].expires_at = None \/ tk[x].expires_at[1] > utc_now}
       |-> tk[t]]

\* identity resolution: [ok, receiver, unlimited, daily_quota] of a credential
verify_token(tk, token) ==
    IF /\ token \in DOMAIN tk
       /\ tk[token].is_active
       /\ tk[token].expires_at = None \/ tk[token].expires_at[1] > utc_now
       /\ users[tk[token].user_id].is_active
    THEN LET u == tk[token].user_id
             limits == plan_limits(tk[token].plan)
         IN [ok |-> TRUE, receiver |-> u,
             unlimited |-> limits.unlimited /\ users[u].daily_quota = None,
             daily_quota |-> IF users[u].daily_quota # None
                             THEN users[u].daily_quota
                             ELSE limits.daily_quota]
    ELSE [ok |-> FALSE]

\* the daily usage counter: today's delivery records of actionable signals
count_reads_today(rd, receiver, token_hash) ==
    Cardinality({x.signal_id : x \in
        {y \in BagToSet(rd) :
            /\ y.receiver_id = receiver
            /\ y.read_at >= start_of_utc_day(utc_now)
            /\ y.signal_id \in DOMAIN signals
            /\ IsActionable(signals[y.signal_id].action)}})

\* the latest signals of the senders the receiver follows
get_latest_signals_for_receiver(receiver, limit) ==
    Take(DescIds({x[2] : x \in subscriptions_for_receiver(receiver)},
                 Len(signals)),
         limit)

\* a delivery record, created once per (receiver, signal, credential)
record_signal_read(rd, signal_id, receiver, token_hash) ==
    IF \E x \in BagToSet(rd) :
          /\ x.signal_id = signal_id
          /\ x.receiver_id = receiver
          /\ x.token_hash = token_hash
    THEN rd
    ELSE rd (+) SetToBag({NewRead(receiver, signal_id, token_hash)})

RECURSIVE RecordAll(_, _, _, _, _)
RecordAll(rd, items, i, receiver, token_hash) ==
    IF i > Len(items) THEN rd
    ELSE RecordAll(record_signal_read(rd, items[i], receiver, token_hash),
                   items, i + 1, receiver, token_hash)

\* GET /signals/latest: [status, items, rd, tk], the response, the delivery
\* records and the token table it leaves
latest_signals(rd, token, limit) ==
    LET tk == purge_expired_tokens(tokens)
        v == verify_token(tk, token)
    IN
    IF ~v.ok
    THEN [status |-> 401, items |-> <<>>, rd |-> rd, tk |-> tk]
    ELSE
    LET token_hash == hash_token_for_read(token)
        used == count_reads_today(rd, v.receiver, token_hash)
        remaining == IF v.daily_quota # None
                     THEN Max(0, v.daily_quota[1] - used)
                     ELSE 0
    IN
    IF ~v.unlimited /\ remaining <= 0
    THEN [status |-> 200, items |-> <<>>, rd |-> rd, tk |-> tk]
    ELSE
    LET lim == IF v.unlimited THEN limit ELSE Min(limit, remaining)
        items == get_latest_signals_for_receiver(v.receiver, lim)
    IN [status |-> 200, items |-> items,
        rd |-> RecordAll(rd, items, 1, v.receiver, token_hash), tk |-> tk]

\* GET /signals: the same handler, the items as a plain array
latest_signals_array(rd, token, limit) == latest_signals(rd, token, limit)

HttpFetch(token, limit) ==
    /\ \E res \in {latest_signals(reads, token, limit),
                   latest_signals_array(reads, token, limit)} :
          /\ reads' = res.rd
          /\ tokens' = res.tk
    /\ UNCHANGED <<users, subs, signals, now, uniqIndex, sess>>

InitHttp ==
    /\ \E p \in PlanNames :
         users = [u \in UserIds |->
                    IF u = SenderId
                    THEN [username |-> "farm_robot", api_key |-> "k0",
                          plan |-> "free", daily_quota |-> None,
                          is_active |-> TRUE]
                    ELSE IF u = R1
                    THEN [username |-> "r1", api_key |-> "k1",
                          plan |-> p, daily_quota |-> None,
                          is_active |-> TRUE]
                    ELSE [username |-> "r2", api_key |-> "k2",
                          plan |-> "free", daily_quota |-> None,
                          is_active |-> FALSE]]
    /\ \E e \in {None, Some(ExpiryTick)} :
         tokens = [t \in {"t1"} |->
                     [user_id |-> R1, plan |-> Some(users[R1].plan),
                      is_active |-> TRUE, expires_at |-> e]]
    /\ subs = {<<R1, SenderId>>}
    /\ signals = <<>>
    /\ reads = EmptyBag
    /\ now = 0
    /\ uniqIndex = TRUE
    /\ sess = [w \in Workers |-> IdleSession]

NextHttp ==
    \/ \E t \in {"t1", "bad"}, l \in Limits : HttpFetch(t, l)
    \/ \E a \in SignalActions : Publish(a)
    \/ Tick

SpecHttp == InitHttp /\ [][NextHttp]_vars

-----------------------------------------------------------------------------
(* The publish endpoints POST /signals/publish and POST /signals *)

\* the tokens a publish request may carry
PublishTokens == {"t0", "t1", "t2", "bad"}

\* (user.username or "").strip().lower(), as far as the names of the model go
StripLowerName(n) ==
    CASE n = "Farm_Robot" -> "farm_robot"
      [] OTHER -> n

_user_can_send(user) == StripLowerName(users[user].username) = "farm_robot"

\* the TradeSignal table after create_signal
create_signal(sender, action) ==
    Append(signals, [user_id |-> sender, action |-> action])

\* POST /signals/publish: [status, signals, tk], the response status, the
\* signal table and the token table it leaves; authorization is None when the
\* header is missing
publish_signal(authorization, action) ==
    LET tk == purge_expired_tokens(tokens) IN
    IF authorization = None
    THEN [status |-> 401, signals |-> signals, tk |-> tk]
    ELSE
    LET v == verify_token(tk, authorization[1]) IN
    IF ~v.ok
    THEN [status |-> 401, signals |-> signals, tk |-> tk]
    ELSE IF ~_user_can_send(v.receiver)
    THEN [status |-> 403, signals |-> signals, tk |-> tk]
    ELSE [status |-> 200, signals |-> create_signal(v.receiver, action),
          tk |-> tk]

\* POST /signals: the same handler
publish_signal_compat(authorization, action) ==
    publish_signal(authorization, action)

PublishRequest(authorization, action) ==
    /\ Len(signals) < MaxSignals
    /\ \E res \in {publish_signal(authorization, action),
                   publish_signal_compat(authorization, action)} :
          /\ signals' = res.signals
          /\ tokens' = res.tk
    /\ UNCHANGED <<users, subs, reads, now, uniqIndex, sess>>

\* three users with a token each; the third is named r2 or Farm_Robot
InitPublish ==
    /\ \E n \in {"r2", "Farm_Robot"} :
         users = [u \in UserIds |->
                    IF u = SenderId
                    THEN [username |-> "farm_robot", api_key |-> "k0",
                          plan |-> "free", daily_quota |-> None,
                          is_active |-> TRUE]
                    ELSE IF u = R1
                    THEN [username |-> "r1", api_key |-> "k1",
                          plan |-> "silver", daily_quota |-> None,
                          is_active |-> TRUE]
                    ELSE [username |-> n, api_key |-> "k2",
                          plan |-> "free", daily_quota |-> None,
                          is_active |-> TRUE]]
    /\ tokens = [t \in {"t0", "t1", "t2"} |->
                   [user_id |-> CASE t = "t0" -> SenderId
                                  [] t = "t1" -> R1
                                  [] OTHER -> R2,
                    plan |-> Some(IF t = "t1" THEN "silver" ELSE "free"),
                    is_active |-> TRUE,
                    expires_at |-> IF t = "t1" THEN Some(ExpiryTick) ELSE None]]
    /\ subs \in {{}, {<<R1, SenderId>>}, {<<R1, SenderId>>, <<R1, R2>>}}
    /\ signals = <<>>
    /\ reads = EmptyBag
    /\ now = 0
    /\ uniqIndex = TRUE
    /\ sess = [w \in Workers |-> IdleSession]

NextPublish ==
    \/ \E t \in PublishTokens, a \in SignalActions :
          PublishRequest(Some(t), a)
    \/ \E a \in SignalActions : PublishRequest(None, a)
    \/ \E l \in Limits : Fetch("t1", l)
    \/ Tick

SpecPublish == InitPublish /\ [][NextPublish]_vars

-----------------------------------------------------------------------------
(* The payment webhook POST /webhook/payment-approved.  ensure_user,         *)
(* ensure_subscription_to_sender and upsert_active_token are not part of     *)
(* crud.py as given; each is modelled from its use in the handler.           *)

NewUserId == 4

\* the credentials a rotation can mint, in order
WebhookTokens == <<"w1", "w2">>

\* WEBHOOK_SECRET: unset, or set
WebhookSecrets == {None, Some("s")}

\* the request bodies: who paid, and for which plan
WebhookPayloads == [username : {"r1", "new"}, plan : {"free", "silver"}]

\* hmac.new(secret, payload, sha256).hexdigest(): a text of ASCII hex digits
\* that is a function of the key and of the message
hmac_sha256(secret, payload) == [ascii |-> TRUE, key |-> secret, msg |-> payload]

\* the X-Webhook-Signature header: missing, the digest of this body or of
\* another one under the secret or under another key, or a text holding a
\* character outside ASCII
WebhookSignatures(payload) ==
    {None}
    \cup {Some(hmac_sha256(k, p)) : k \in {"s", "x"}, p \in WebhookPayloads}
    \cup {Some([ascii |-> FALSE, key |-> "", msg |-> payload])}

\* 0 when the request passes, else the status of the error raised;
\* compare_digest raises TypeError on a text that is not ASCII, and the
\* handler calls _verify_webhook outside its try block
_verify_webhook(secret, header_sig, payload) ==
    IF secret = None THEN 401
    ELSE IF header_sig = None THEN 401
    ELSE IF ~header_sig[1].ascii THEN 500
    ELSE IF hmac_sha256(secret[1], payload) # header_sig[1] THEN 401
    ELSE 0

\* [users, id]: the User table and the row found or created for the name
ensure_user(us, username) ==
    LET m == {u \in DOMAIN us : us[u].username = username} IN
    IF m # {}
    THEN [users |-> us, id |-> CHOOSE u \in m : TRUE]
    ELSE [users |-> [u \in DOMAIN us \cup {NewUserId} |->
                        IF u \in DOMAIN us THEN us[u]
                        ELSE [username |-> username, api_key |-> "k4",
                              plan |-> "free", daily_quota |-> None,
                              is_active |-> TRUE]],
          id |-> NewUserId]

\* the Subscription table after ensure_subscription_to_sender
ensure_subscription_to_sender(sb, us, user, sender_name) ==
    sb \cup {<<user, s>> : s \in {u \in DOMAIN us : us[u].username = sender_name}}

\* the first credential of WebhookTokens that is not in the table
FreshToken(tk) ==
    LET free == {i \in DOMAIN WebhookTokens : WebhookTokens[i] \notin DOMAIN tk}
    IN WebhookTokens[CHOOSE i \in free : \A j \in free : i <= j]

\* [tokens, token, rotated]: the APIToken table, the user's active credential
upsert_active_token(tk, user, plan, rotate) ==
    LET active == {t \in DOMAIN tk : tk[t].user_id = user /\ tk[t].is_active} IN
    IF active # {} /\ ~rotate
    THEN LET t == CHOOSE x \in active : TRUE IN
         [tokens |-> [tk EXCEPT ![t].plan = Some(normalize_plan(Some(plan)))],
          token |-> t, rotated |-> FALSE]
    ELSE LET t == FreshToken(tk) IN
         [tokens |-> [x \in DOMAIN tk \cup {t} |->
                        IF x = t
                        THEN [user_id |-> user,
                              plan |-> Some(normalize_plan(Some(plan))),
                              is_active |-> TRUE, expires_at |-> None]
                        ELSE IF x \in active
                        THEN [tk[x] EXCEPT !.is_active = FALSE]
                        ELSE tk[x]],
          token |-> t, rotated |-> TRUE]

\* [status, users, tokens, subs, notified]: the response status, the tables
\* the request leaves, and whether notify_wordpress was called
webhook_payment_approved(secret, header_sig, payload) ==
    LET e == _verify_webhook(secret, header_sig, payload) IN
    IF e # 0
    THEN [status |-> e, users |-> users, tokens |-> tokens, subs |-> subs,
          notified |-> FALSE]
    ELSE
    LET tk == purge_expired_tokens(tokens)
        plan == IF payload.plan \in {"free", "silver", "gold"}
                THEN payload.plan ELSE "free"
        eu == ensure_user(users, payload.username)
        user == eu.id
        sb == ensure_subscription_to_sender(subs, eu.users, user, "farm_robot")
        active == {t \in DOMAIN tk : tk[t].user_id = user /\ tk[t].is_active}
        current_plan == normalize_plan(IF active # {}
                                       THEN tk[CHOOSE t \in active : TRUE].plan
                                       ELSE Some(eu.users[user].plan))
        need_rotate == normalize_plan(Some(plan)) # current_plan
        up == upsert_active_token(tk, user, plan, need_rotate)
    IN [status |-> 200, users |-> eu.users, tokens |-> up.tokens, subs |-> sb,
        notified |-> TRUE]

\* one webhook request; the guard keeps a credential to mint
Webhook(secret, header_sig, payload) ==
    /\ \E i \in DOMAIN WebhookTokens : WebhookTokens[i] \notin DOMAIN tokens
    /\ LET res == webhook_payment_approved(secret, header_sig, payload) IN
       /\ users' = res.users
       /\ tokens' = res.tokens
       /\ subs' = res.subs
    /\ UNCHANGED <<signals, reads, now, uniqIndex, sess>>

InitWebhook ==
    /\ \E p \in {"free", "silver"} :
         users = [u \in UserIds |->
                    IF u = SenderId
                    THEN [username |-> "farm_robot", api_key |-> "k0",
                          plan |-> "free", daily_quota |-> None,
                          is_active |-> TRUE]
                    ELSE IF u = R1
                    THEN [username |-> "r1", api_key |-> "k1",
                          plan |-> p, daily_quota |-> None,
                          is_active |-> TRUE]
                    ELSE [username |-> "r2", api_key |-> "k2",
                          plan |-> "free", daily_quota |-> None,
                          is_active |-> FALSE]]
    /\ \E e \in {None, Some(ExpiryTick)} :
         tokens = [t \in {"t1"} |->
                     [user_id |-> R1, plan |-> Some(users[R1].plan),
                      is_active |-> TRUE, expires_at |-> e]]
    /\ subs \in {{}, {<<R1, SenderId>>}}
    /\ signals = <<>>
    /\ reads = EmptyBag
    /\ now = 0
    /\ uniqIndex = TRUE
    /\ sess = [w \in Workers |-> IdleSession]

NextWebhook ==
    \/ \E secret \in WebhookSecrets, payload \in WebhookPayloads :
          \E sig \in WebhookSignatures(payload) : Webhook(secret, sig, payload)
    \/ Publish("buy")
    \/ \E l \in Limits : Fetch("t1", l)
    \/ Tick

SpecWebhook == InitWebhook /\ [][NextWebhook]_vars

-----------------------------------------------------------------------------
(* The quota-check endpoints GET /auth/verify and POST /validate *)

\* GET /auth/verify: [status, remaining_today, rd, tk], the response, the
\* delivery records and the token table it leaves
auth_verify(authorization) ==
    LET tk == purge_expired_tokens(tokens) IN
    IF authorization = None
    THEN [status |-> 401, remaining_today |-> None, rd |-> reads, tk |-> tk]
    ELSE
    LET token == authorization[1]
        v == verify_token(tk, token)
    IN
    IF ~v.ok
    THEN [status |-> 401, remaining_today |-> None, rd |-> reads, tk |-> tk]
    ELSE
    LET used == count_reads_today(reads, v.receiver, hash_token_for_read(token))
    IN [status |-> 200,
        remaining_today |-> IF ~v.unlimited /\ v.daily_quota # None
                            THEN Some(Max(0, v.daily_quota[1] - used))
                            ELSE None,
        rd |-> reads, tk |-> tk]

\* POST /validate: [ok, remaining_today, rd, tk]
validate_credentials(api_key) ==
    LET tk == purge_expired_tokens(tokens) IN
    IF api_key = ""
    THEN [ok |-> FALSE, remaining_today |-> None, rd |-> reads, tk |-> tk]
    ELSE
    IF ~(/\ api_key \in DOMAIN tk
         /\ tk[api_key].is_active
         /\ tk[api_key].expires_at # None
         /\ tk[api_key].expires_at[1] > utc_now
         /\ users[tk[api_key].user_id].is_active)
    THEN [ok |-> FALSE, remaining_today |-> None, rd |-> reads, tk |-> tk]
    ELSE
    LET tok == tk[api_key]
        limits == plan_limits(tok.plan)
        used == count_reads_today(reads, tok.user_id,
                                  hash_token_for_read(api_key))
    IN [ok |-> TRUE,
        remaining_today |-> IF ~limits.unlimited /\ limits.daily_quota # None
                            THEN Some(Max(0, limits.daily_quota[1] - used))
                            ELSE None,
        rd |-> reads, tk |-> tk]

AuthVerify(authorization) ==
    LET res == auth_verify(authorization) IN
    /\ reads' = res.rd
    /\ tokens' = res.tk
    /\ UNCHANGED <<users, subs, signals, now, uniqIndex, sess>>

Validate(api_key) ==
    LET res == validate_credentials(api_key) IN
    /\ reads' = res.rd
    /\ tokens' = res.tk
    /\ UNCHANGED <<users, subs, signals, now, uniqIndex, sess>>

\* the credentials a quota check may carry
CheckTokens == {"t1", "bad"}

NextCheck ==
    \/ \E t \in CheckTokens : AuthVerify(Some(t))
    \/ AuthVerify(None)
    \/ \E t \in CheckTokens \cup {""} : Validate(t)
    \/ \E t \in CheckTokens, l \in Limits : Fetch(t, l)
    \/ \E a \in SignalActions : Publish(a)
    \/ Tick

SpecCheck == InitHttp /\ [][NextCheck]_vars

-----------------------------------------------------------------------------
(* Revocation of a credential that is also the owner's legacy api_key *)

\* the credentials of r1: a token of the APIToken table, and the api_key of
\* the User row, which admin_issue_token can enter into the table as well
RevokeTokens == {"t1", "k1"}

InitRevoke ==
    /\ users = [u \in UserIds |->
                  IF u = SenderId
                  THEN [username |-> "farm_robot", api_key |-> "k0",
                        plan |-> "free", daily_quota |-> None,
                        is_active |-> TRUE]
                  ELSE IF u = R1
                  THEN [username |-> "r1", api_key |-> "k1",
                        plan |-> "free", daily_quota |-> None,
                        is_active |-> TRUE]
                  ELSE [username |-> "r2", api_key |-> "k2",
                        plan |-> "free", daily_quota |-> None,
                        is_active |-> FALSE]]
    /\ tokens = [t \in {"t1"} |->
                   [user_id |-> R1, plan |-> Some("free"),
                    is_active |-> TRUE, expires_at |-> None]]
    /\ subs = {<<R1, SenderId>>}
    /\ signals = <<>>
    /\ reads = EmptyBag
    /\ now = 0
    /\ uniqIndex = TRUE
    /\ sess = [w \in Workers |-> IdleSession]

NextRevoke ==
    \/ \E t \in RevokeTokens, p \in PlanNames : IssueToken("r1", t, p)
    \/ \E t \in RevokeTokens : RevokeToken(t)
    \/ \E t \in RevokeTokens : Fetch(t, MaxSignals)
    \/ Publish("buy")
    \/ Tick

SpecRevoke == InitRevoke /\ [][NextRevoke]_vars

-----------------------------------------------------------------------------
(* Concurrent fetches.  Every request has a session of its own (get_db), a   *)
(* transaction under the store's default READ COMMITTED isolation: a query   *)
(* sees the committed rows and the session's own flushed rows (pending).     *)

\* the rows worker w's queries see
Visible(w) == reads (+) sess[w].pending

\* lines 176-226: resolve the receiver, the quota, the candidates and today's usage
BeginFetch(w, token, limit) ==
    /\ sess[w].pc = "idle"
    /\ LET r == user_by_api_token(token) IN
       IF r = None \/ ~users[r[1]].is_active
       THEN sess' = [sess EXCEPT ![w] =
                       [pc |-> "failed", error |-> "Invalid or inactive API token",
                        pending |-> EmptyBag, inserted |-> {}]]
       ELSE
       LET receiver == r[1]
           sender_ids == {x[2] : x \in subscriptions_for_receiver(receiver)}
           q == effective_quota_for_token(receiver, token)
           token_hash == hash_token_for_read(token)
           cands == CandidateSignals(sender_ids, limit)
           total_used_today == count_actionable_opens_today(reads, receiver)
           token_used_today == token_daily_usage_today(reads, receiver, token_hash)
           quota == IF q[2] = None THEN 0 ELSE q[2][1]
       IN sess' = [sess EXCEPT ![w] =
                     [pc |-> IF sender_ids = {} THEN "commit" ELSE "loop",
                      receiver |-> receiver, token_hash |-> token_hash,
                      limit |-> limit, unlimited |-> q[1],
                      cands |-> IF q[1] THEN Take(cands, limit) ELSE cands,
                      i |-> 1,
                      remaining |-> RemainingAtStart(quota, total_used_today,
                                                     token_used_today),
                      delivered |-> <<>>, pending |-> EmptyBag, inserted |-> {}]]
    /\ UNCHANGED <<users, tokens, subs, signals, reads, now, uniqIndex>>

\* where the loop goes after candidate i is done; check says whether the pass
\* reaches the limit test of line 248
AfterPass(ss, check) ==
    IF (check /\ ~ss.unlimited /\ Len(ss.delivered) >= ss.limit) \/ ss.i >= Len(ss.cands)
    THEN [ss EXCEPT !.pc = "commit", !.i = @ + 1]
    ELSE [ss EXCEPT !.pc = "loop", !.i = @ + 1]

\* one pass of the loop up to the existence query of _was_read_by_token
LoopPass(w) ==
    /\ sess[w].pc = "loop"
    /\ LET ss == sess[w]
           s == ss.cands[ss.i]
           seen == _was_read_by_token(Visible(w), ss.receiver, s, ss.token_hash)
           actionable == IsActionable(signals[s].action)
       IN IF ss.i > Len(ss.cands)
          THEN sess' = [sess EXCEPT ![w].pc = "commit"]
          ELSE IF ~ss.unlimited /\ actionable /\ ss.remaining <= 0
          THEN sess' = [sess EXCEPT ![w] = AfterPass(ss, FALSE)]
          ELSE IF ~ss.unlimited /\ actionable /\ seen
          THEN sess' = [sess EXCEPT ![w] =
                          AfterPass([ss EXCEPT !.delivered = Append(@, s)], FALSE)]
          ELSE IF seen
          THEN sess' = [sess EXCEPT ![w] =
                          AfterPass([ss EXCEPT !.delivered = Append(@, s)], TRUE)]
          ELSE sess' = [sess EXCEPT ![w].pc = "insert"]
    /\ UNCHANGED <<users, tokens, subs, signals, reads, now, uniqIndex>>

\* the key of the unique index on the row worker w is about to insert
SameKey(x, token_hash, signal_id) ==
    x.token_hash = token_hash /\ x.signal_id = signal_id

\* the INSERT of _record_read_once (db.add, db.flush) and the rest of the pass
InsertRead(w) ==
    /\ sess[w].pc = "insert"
    /\ LET ss == sess[w]
           s == ss.cands[ss.i]
           row == NewRead(ss.receiver, s, ss.token_hash)
           charged == ~ss.unlimited /\ IsActionable(signals[s].action)
       IN \* the index makes the insert wait for a session that holds the key
          /\ uniqIndex =>
                ~\E v \in Workers \ {w} : \E x \in BagToSet(sess[v].pending) :
                      SameKey(x, ss.token_hash, s)
          /\ IF uniqIndex /\ \E x \in BagToSet(reads) : SameKey(x, ss.token_hash, s)
             THEN sess' = [sess EXCEPT ![w] =
                             [pc |-> "failed", error |-> "IntegrityError",
                              pending |-> EmptyBag, inserted |-> {}]]
             ELSE sess' = [sess EXCEPT ![w] =
                             AfterPass([ss EXCEPT
                                  !.pending = @ (+) SetToBag({row}),
                                  !.inserted = @ \cup {s},
                                  !.remaining = IF charged THEN @ - 1 ELSE @,
                                  !.delivered = Append(@, s)], TRUE)]
    /\ UNCHANGED <<users, tokens, subs, signals, reads, now, uniqIndex>>

\* the caller's db.commit()
CommitFetch(w) ==
    /\ sess[w].pc = "commit"
    /\ reads' = reads (+) sess[w].pending
    /\ sess' = [sess EXCEPT ![w].pc = "done", ![w].pending = EmptyBag]
    /\ UNCHANGED <<users, tokens, subs, signals, now, uniqIndex>>

\* a request that fails or is given up before its commit: get_db closes the
\* session and the open transaction, with every flushed row, is rolled back
AbandonFetch(w) ==
    /\ sess[w].pc \in {"loop", "insert", "commit"}
    /\ sess' = [sess EXCEPT ![w].pc = "abandoned", ![w].pending = EmptyBag]
    /\ UNCHANGED <<users, tokens, subs, signals, reads, now, uniqIndex>>

RECURSIVE SeqsUpTo(_, _)
SeqsUpTo(S, n) ==
    IF n = 0 THEN {<<>>}
    ELSE LET shorter == SeqsUpTo(S, n - 1)
         IN shorter \cup {Append(q, x) : q \in shorter, x \in S}

InitConc ==
    /\ \E p \in {"free", "silver", "gold"} :
         users = [u \in UserIds |->
                    IF u = SenderId
                    THEN [username |-> "farm_robot", api_key |-> "k0",
                          plan |-> "free", daily_quota |-> None,
                          is_active |-> TRUE]
                    ELSE IF u = R1
                    THEN [username |-> "r1", api_key |-> "k1",
                          plan |-> p, daily_quota |-> None,
                          is_active |-> TRUE]
                    ELSE [username |-> "r2", api_key |-> "k2",
                          plan |-> "free", daily_quota |-> None,
                          is_active |-> FALSE]]
    /\ tokens = [t \in {"t1"} |->
                   [user_id |-> R1, plan |-> Some(users[R1].plan),
                    is_active |-> TRUE, expires_at |-> Some(ExpiryTick)]]
    /\ subs = {<<R1, SenderId>>}
    /\ signals \in SeqsUpTo({[user_id |-> SenderId, action |-> a] : a \in SignalActions},
                            MaxSignals)
    /\ reads = EmptyBag
    /\ now = 0
    /\ uniqIndex \in BOOLEAN
    /\ sess = [w \in Workers |-> IdleSession]

NextConc ==
    \/ \E w \in Workers, t \in {"t1", "bad"}, l \in Limits : BeginFetch(w, t, l)
    \/ \E w \in Workers : LoopPass(w)
    \/ \E w \in Workers : InsertRead(w)
    \/ \E w \in Workers : CommitFetch(w)
    \/ \E w \in Workers : AbandonFetch(w)

SpecConc == InitConc /\ [][NextConc]_vars

-----------------------------------------------------------------------------
(* What the claims speak of *)

\* the fetch made in the current state, and the same fetch made again after it
Deliver(token, limit) == latest_signals_for_token(reads, token, limit)

DeliverAgain(token, limit) ==
    latest_signals_for_token(Deliver(token, limit).rd, token, limit)

DayOf(ts) == ts \div TicksPerDay

\* the actionable signals with a read of receiver u dated today, among the rows rd
ChargedToday(rd, u) ==
    {s \in DOMAIN signals :
        /\ signals[s].action \in {"buy", "sell"}
        /\ \E x \in BagToSet(rd) :
              x.signal_id = s /\ x.receiver_id = u /\ DayOf(x.read_at) = DayOf(now)}

PlanDefault(p) == IF p = "free" THEN 1 ELSE 3

FinitePlan(u) == users[u].plan \in {"free", "silver"}

\* the signals with a read of receiver u (under token hash h), among the rows rd
DeliveredTo(rd, u) ==
    {s \in DOMAIN signals :
        \E x \in BagToSet(rd) : x.signal_id = s /\ x.receiver_id = u}

DeliveredUnder(rd, u, h) ==
    {s \in DOMAIN signals :
        \E x \in BagToSet(rd) :
            x.signal_id = s /\ x.receiver_id = u /\ x.token_hash = h}

RowsOf(u, s) ==
    CountRows(reads, {x \in BagToSet(reads) : x.receiver_id = u /\ x.signal_id = s})

RowsUnder(u, s, h) ==
    CountRows(reads, {x \in BagToSet(reads) :
                         x.receiver_id = u /\ x.signal_id = s /\ x.token_hash = h})

Range(q) == {q[i] : i \in DOMAIN q}

NonActionableOf(q) ==
    SelectSeq(q, LAMBDA s : signals[s].action \notin {"buy", "sell"})

\* the remaining quota a fetch with the token would start from (lines 220-226)
RemainingToday(token) ==
    LET receiver == tokens[token].user_id
        q == effective_quota_for_token(receiver, token)
        quota == IF q[2] = None THEN 0 ELSE q[2][1]
    IN RemainingAtStart(quota,
                        count_actionable_opens_today(reads, receiver),
                        token_daily_usage_today(reads, receiver,
                                                hash_token_for_read(token)))

FiniteToken(token) ==
    /\ token \in DOMAIN tokens
    /\ ~effective_quota_for_token(tokens[token].user_id, token)[1]

-----------------------------------------------------------------------------
(* C1: for a receiver on a finite plan that does not change, after any       *)
(* sequence of non-overlapping fetches the number of distinct actionable     *)
(* signals with a read of that receiver dated in the current UTC day never   *)
(* exceeds the plan's daily quota (free 1, silver 3).                        *)
C1_QuotaNeverExceeded ==
    \A u \in UserIds :
        FinitePlan(u) =>
            Cardinality(ChargedToday(reads, u)) <= PlanDefault(users[u].plan)

\* the quota was binding: a newer actionable signal is charged today, an older
\* one was passed over, and the receiver holds two credentials
C1_Witness ==
    /\ users[R1].plan = "free"
    /\ "t2" \in DOMAIN tokens
    /\ Cardinality(ChargedToday(reads, R1)) = 1
    /\ \E s1, s2 \in DOMAIN signals :
          /\ s1 < s2
          /\ s2 \in ChargedToday(reads, R1)
          /\ signals[s1].action = "buy"
          /\ s1 \notin DeliveredTo(reads, R1)

(* C2: M concurrent fetches of one identity and credential, each seeing the  *)
(* same candidates, with daily quota Q: the distinct actionable signals      *)
(* newly charged by all of them together never exceed Q.                     *)
C2_NoOverGrant ==
    FinitePlan(R1) =>
        Cardinality(ChargedToday(reads, R1)) <= PlanDefault(users[R1].plan)

(* C3: a candidate that already has a delivery record for the calling        *)
(* identity is in the output of a fetch whatever its action and whatever     *)
(* the remaining quota, and is not charged again.  Stated for the calling    *)
(* credential's own records and a limit that covers the candidates.          *)
C3_AlreadyDeliveredIncluded ==
    \A t \in TokenStrings, l \in Limits :
        LET res == Deliver(t, l) IN
        (res.ok /\ l >= Len(res.candidates)) =>
            \A s \in DeliveredUnder(reads, res.receiver, hash_token_for_read(t))
                     \cap Range(res.candidates) :
                /\ s \in Range(res.delivered)
                /\ RowsOf(res.receiver, s) =
                      CountRows(res.rd, {x \in BagToSet(res.rd) :
                            x.receiver_id = res.receiver /\ x.signal_id = s})

(* C4: the same fetch made twice in succession, with no new signal between,  *)
(* returns the same delivered set the second time.                           *)
C4_SameDeliveredSet ==
    \A t \in TokenStrings, l \in Limits :
        Deliver(t, l).ok =>
            Range(DeliverAgain(t, l).delivered) = Range(Deliver(t, l).delivered)

(* C5: the same fetch made twice in succession in one UTC day: the second    *)
(* call creates no delivery record for an actionable signal, today's usage   *)
(* count is the same before and after it.                                    *)
C5_SecondCallChargesNothing ==
    \A t \in TokenStrings, l \in Limits :
        Deliver(t, l).ok =>
            ChargedToday(DeliverAgain(t, l).rd, Deliver(t, l).receiver)
                = ChargedToday(Deliver(t, l).rd, Deliver(t, l).receiver)

(* C6: non-actionable signals are never gated by quota and never charged:   *)
(* with no quota remaining and a limit covering the candidates, a fetch      *)
(* returns every non-actionable candidate, in order, returns no actionable   *)
(* candidate that was never delivered, and leaves the usage count unchanged. *)
C6_Case(t, l) ==
    /\ Deliver(t, l).ok
    /\ FiniteToken(t)
    /\ Deliver(t, l).candidates # <<>>
    /\ RemainingToday(t) = 0
    /\ l >= Len(Deliver(t, l).candidates)

C6_NonActionableAlwaysIncluded ==
    \A t \in TokenStrings, l \in Limits :
        C6_Case(t, l) =>
            /\ NonActionableOf(Deliver(t, l).delivered)
                  = NonActionableOf(Deliver(t, l).candidates)
            /\ \A s \in Range(Deliver(t, l).delivered) :
                  signals[s].action \in {"buy", "sell"} =>
                      s \in DeliveredTo(reads, Deliver(t, l).receiver)
            /\ ChargedToday(Deliver(t, l).rd, Deliver(t, l).receiver)
                  = ChargedToday(reads, Deliver(t, l).receiver)

\* the case with both kinds of candidate pending: a non-actionable signal is
\* delivered for the first time, a never-delivered actionable one is withheld
C6_Witness ==
    \E t \in TokenStrings, l \in Limits :
        /\ C6_Case(t, l)
        /\ \E s \in Range(Deliver(t, l).candidates) :
              /\ signals[s].action = "close"
              /\ s \notin DeliveredTo(reads, Deliver(t, l).receiver)
              /\ s \in Range(Deliver(t, l).delivered)
        /\ \E s \in Range(Deliver(t, l).candidates) :
              /\ signals[s].action = "buy"
              /\ s \notin DeliveredTo(reads, Deliver(t, l).receiver)
              /\ s \notin Range(Deliver(t, l).delivered)

(* C7: for an identity on plan P in {free, silver}, the remaining quota      *)
(* computed after N <= plan_default(P) actionable deliveries today is        *)
(* plan_default(P) - N; once it is 0 it stays 0 through every further        *)
(* operation of the same UTC day.                                            *)
C7_RemainingIsDefaultMinusUsed ==
    \A t \in DOMAIN tokens :
        (FiniteToken(t) /\ FinitePlan(tokens[t].user_id)) =>
            LET n == Cardinality(ChargedToday(reads, tokens[t].user_id))
                d == PlanDefault(users[tokens[t].user_id].plan)
            IN RemainingToday(t) = IF n <= d THEN d - n ELSE 0

C7_StaysExhausted ==
    \A t \in DOMAIN tokens :
        (/\ FiniteToken(t)
         /\ RemainingToday(t) = 0
         /\ DayOf(now') = DayOf(now))
            => RemainingToday(t)' = 0

C7_Remaining ==
    /\ []C7_RemainingIsDefaultMinusUsed
    /\ [][C7_StaysExhausted]_vars

\* a silver identity that used part of its quota on one credential and the
\* rest on another
C7_Witness ==
    /\ users[R1].plan = "silver"
    /\ "t2" \in DOMAIN tokens
    /\ Cardinality(ChargedToday(reads, R1)) = 3
    /\ RemainingToday("t1") = 0
    /\ RemainingToday("t2") = 0
    /\ DeliveredUnder(reads, R1, hash_token_for_read("t1")) # {}
    /\ DeliveredUnder(reads, R1, hash_token_for_read("t2")) # {}

C9_DuplicateInsertIsBenign ==
    /\ \A w \in Workers :
          sess[w].pc = "failed" => sess[w].error = "Invalid or inactive API token"
    /\ \A s \in DOMAIN signals :
          RowsUnder(R1, s, hash_token_for_read("t1")) <= 1

(* C10: a fetch with a credential that is unknown, inactive, expired or      *)
(* owned by an inactive user is rejected and leaves the store unchanged.     *)
OwnersOf(t) ==
    (IF t \in DOMAIN tokens THEN {tokens[t].user_id} ELSE {})
        \cup {u \in UserIds : users[u].api_key = t}

InvalidCredential(t) ==
    \/ OwnersOf(t) = {}
    \/ t \in DOMAIN tokens /\ ~tokens[t].is_active
    \/ t \in DOMAIN tokens /\ tokens[t].expires_at # None
                           /\ tokens[t].expires_at[1] <= now
    \/ \E u \in OwnersOf(t) : ~users[u].is_active

C10_InvalidCredentialRejected ==
    \A t \in TokenStrings, l \in Limits :
        InvalidCredential(t) =>
            /\ ~Deliver(t, l).ok
            /\ Deliver(t, l).rd = reads

(* C11: for an identity whose effective plan is gold, every fetch reports    *)
(* unlimited quota (unlimited true, no finite daily quota, no finite         *)
(* remaining) and delivers every actionable candidate within the limit,      *)
(* whatever was delivered today and whatever the identity's subscriptions.   *)
GoldToken(token) ==
    /\ token \in DOMAIN tokens
    /\ effective_quota_for_token(tokens[token].user_id, token)[1]

C11_GoldIsUnlimited ==
    \A t \in TokenStrings, l \in Limits :
        (GoldToken(t) /\ Deliver(t, l).ok) =>
            /\ Deliver(t, l).meta.unlimited
            /\ Deliver(t, l).meta.daily_quota = None
            /\ Deliver(t, l).meta.remaining = None
            /\ \A i \in 1..Min(l, Len(Deliver(t, l).candidates)) :
                  Deliver(t, l).candidates[i] \in Range(Deliver(t, l).delivered)

(* C12: the effective daily quota of the quota check is the identity's       *)
(* quota override whenever one is set, the plan default only when it is      *)
(* absent; an override of 0 blocks every actionable delivery.                *)
EffectiveQuota(u) ==
    IF users[u].daily_quota # None
    THEN users[u].daily_quota[1]
    ELSE PlanDefault(users[u].plan)

C12_OverrideSupersedesPlan ==
    \A t \in TokenStrings, l \in Limits :
        (/\ Deliver(t, l).ok
         /\ FiniteToken(t)
         /\ subscriptions_for_receiver(Deliver(t, l).receiver) # {}) =>
            /\ Deliver(t, l).meta.daily_quota
                  = Some(EffectiveQuota(Deliver(t, l).receiver))
            /\ Cardinality(ChargedToday(Deliver(t, l).rd, Deliver(t, l).receiver))
                  <= EffectiveQuota(Deliver(t, l).receiver)

(* C13: usage does not leak across the UTC day boundary: when the clock      *)
(* passes midnight, the first quota check of the new day reports the plan    *)
(* default as remaining, whatever was consumed the day before; the day       *)
(* start is recomputed from the current time on every check.                 *)
C13_DayBoundaryResets ==
    \A t \in DOMAIN tokens :
        (/\ FiniteToken(t)
         /\ FinitePlan(tokens[t].user_id)
         /\ DayOf(now') # DayOf(now))
            => RemainingToday(t)' = PlanDefault(users[tokens[t].user_id].plan)

C13_NoLeakAcrossDays == [][C13_DayBoundaryResets]_vars

\* the first instant of the next day, the quota of the day before fully consumed
C13_Witness ==
    /\ now = TicksPerDay
    /\ users[R1].plan = "silver"
    /\ Cardinality({x \in BagToSet(reads) :
                       /\ x.receiver_id = R1
                       /\ x.read_at = TicksPerDay - 1
                       /\ signals[x.signal_id].action = "buy"}) = 3
    /\ RemainingToday("t1") = 3

(* C14: a plan change takes effect on the very next quota check of the same  *)
(* UTC day, with the same usage count: the remaining quota is                *)
(* max(0, new plan quota - actionable deliveries made to the identity        *)
(* today), for the credential the change was written on, be it the present  *)
(* one or a new (rotated) one.                                               *)
C14_PlanChangeStep ==
    \A u \in UserIds, t \in TokenStrings :
        (/\ users'[u].plan # users[u].plan
         /\ users'[u].plan \in {"free", "silver"}
         /\ t \in DOMAIN tokens'
         /\ tokens'[t].user_id = u
         /\ tokens'[t].is_active
         /\ tokens'[t].plan = Some(users'[u].plan))
            => RemainingToday(t)'
                  = Max(PlanDefault(users'[u].plan)
                           - Cardinality(ChargedToday(reads, u)), 0)

C15_AtMostLimit ==
    \A t \in TokenStrings, l \in Limits :
        Deliver(t, l).ok => Len(Deliver(t, l).delivered) <= l

(* C16: no candidate is permanently lost: for a receiver on the gold plan    *)
(* that keeps polling with a fixed limit, every signal of a followed sender  *)
(* (all of them stay inside the history window) is eventually delivered by   *)
(* some fetch, also when the window holds more signals than the limit.       *)
C16_EventuallyDelivered ==
    \A i \in 1..MaxSignals :
        [](  (users[R1].plan = "gold" /\ i \in DOMAIN signals)
             => <>(i \in DeliveredTo(reads, R1)))

(* C17: the quota metadata a fetch returns (plan, daily quota or unlimited,  *)
(* remaining or unlimited) equals a fresh quota computation from the stored  *)
(* token plan and the delivery records as they are right after the call,     *)
(* on finite and unlimited plans, without subscriptions and with records     *)
(* made under an earlier credential.                                         *)
FreshMeta(t, rd) ==
    LET u == user_by_api_token(t)[1]
        q == effective_quota_for_token(u, t)
        quota == IF q[2] = None THEN 0 ELSE q[2][1]
        h == hash_token_for_read(t)
    IN [plan |-> IF token_record(t) # None
                 THEN normalize_plan(token_record(t)[1].plan)
                 ELSE normalize_plan(Some(users[u].plan)),
        unlimited |-> q[1],
        daily_quota |-> q[2],
        remaining |-> IF q[1] THEN None
                      ELSE Some(RemainingAtStart(quota,
                                   count_actionable_opens_today(rd, u),
                                   token_daily_usage_today(rd, u, h)))]

C17_MetaIsFreshQuota ==
    \A t \in TokenStrings, l \in Limits :
        Deliver(t, l).ok =>
            LET m == Deliver(t, l).meta
                f == FreshMeta(t, Deliver(t, l).rd)
            IN /\ m.plan = f.plan
               /\ m.unlimited = f.unlimited
               /\ m.daily_quota = f.daily_quota
               /\ m.remaining = f.remaining

(* C18: quota exhaustion is not an error on the HTTP fetch endpoints: a      *)
(* finite-plan receiver with no quota left gets a success response, and the  *)
(* response still holds the pending non-actionable signals.                  *)
HttpExhausted(t) ==
    LET v == verify_token(purge_expired_tokens(tokens), t) IN
    /\ v.ok
    /\ ~v.unlimited
    /\ v.daily_quota # None
    /\ v.daily_quota[1]
          - count_reads_today(reads, v.receiver, hash_token_for_read(t)) <= 0

PendingNonActionable(u, l) ==
    Take(SelectSeq(get_latest_signals_for_receiver(u, Len(signals)),
                   LAMBDA s : /\ ~IsActionable(signals[s].action)
                              /\ s \notin DeliveredTo(reads, u)),
         l)

C18_ExhaustionStillDeliversNonActionable ==
    \A t \in TokenStrings, l \in Limits :
        HttpExhausted(t) =>
            \A res \in {latest_signals(reads, t, l),
                        latest_signals_array(reads, t, l)} :
                /\ res.status = 200
                /\ Range(PendingNonActionable(tokens[t].user_id, l))
                      \subseteq Range(res.items)

(* C19: when a fetch is given up or fails after some candidates were         *)
(* processed, the delivery records (and so the quota charges) of those       *)
(* candidates stay stored; they are not rolled back.                         *)
C19_ProcessedRecordsSurvive ==
    \A w \in Workers :
        sess[w].pc = "abandoned" =>
            \A s \in sess[w].inserted :
                RowsUnder(sess[w].receiver, s, sess[w].token_hash) >= 1

(* C20: a fetch changes only the set of delivery records, and only by        *)
(* adding records of the calling receiver: users, tokens, subscriptions and  *)
(* signals are the same before and after, and no delivery record that        *)
(* exists is updated or removed.                                             *)
C20_FetchAddsOwnRecords ==
    \A t \in TokenStrings, l \in Limits :
        /\ reads \sqsubseteq Deliver(t, l).rd
        /\ Deliver(t, l).ok =>
              \A x \in BagToSet(Deliver(t, l).rd (-) reads) :
                  /\ x.receiver_id = Deliver(t, l).receiver
                  /\ x.token_hash = hash_token_for_read(t)
                  /\ x.read_at = now
        /\ ~Deliver(t, l).ok => Deliver(t, l).rd = reads

C20_FetchStep ==
    reads' # reads =>
        /\ reads \sqsubseteq reads'
        /\ users' = users
        /\ tokens' = tokens
        /\ subs' = subs
        /\ signals' = signals

C20_FetchFrame ==
    /\ []C20_FetchAddsOwnRecords
    /\ [][C20_FetchStep]_vars

\* a fetch on a later tick that delivers a signal again, next to a new one
C20_Witness ==
    \E t \in TokenStrings, l \in Limits :
        /\ Deliver(t, l).ok
        /\ Deliver(t, l).rd # reads
        /\ \E x \in BagToSet(reads) :
              /\ x.receiver_id = Deliver(t, l).receiver
              /\ x.token_hash = hash_token_for_read(t)
              /\ x.read_at < now
              /\ x.signal_id \in Range(Deliver(t, l).delivered)

-----------------------------------------------------------------------------
(* C21: only the single privileged sender can publish.  Every step that      *)
(* creates a signal row is a publish request whose bearer token resolves to  *)
(* the user named farm_robot, and the row belongs to that user; a request    *)
(* answered 401 (missing or invalid credential) or 403 (another valid user)  *)
(* creates no signal; and a publish step leaves every receiver's usage of    *)
(* today unchanged.                                                          *)
C21_OnlySenderPublishes ==
    [][/\ signals' # signals =>
            /\ \E t \in PublishTokens, a \in SignalActions :
                  LET v == verify_token(purge_expired_tokens(tokens), t) IN
                  /\ v.ok
                  /\ users[v.receiver].username = "farm_robot"
                  /\ signals' = create_signal(v.receiver, a)
            /\ \A u \in UserIds :
                  ChargedToday(reads, u)' = ChargedToday(reads, u)
       /\ \A t \in PublishTokens, a \in SignalActions :
             publish_signal(Some(t), a).status \in {401, 403}
                => publish_signal(Some(t), a).signals = signals
      ]_vars

-----------------------------------------------------------------------------
(* C22: an actionable signal the receiver has never been delivered, which a  *)
(* fetch passes over because the quota is exhausted, gets no delivery record *)
(* in that call: it has no record of the receiver after the call either.     *)
(* And a fetch made while quota is available, which reaches such a signal    *)
(* within the limit, delivers it and charges it exactly once: one record of  *)
(* the receiver for it, dated today.  The witness is the fetch of a later    *)
(* UTC day for a signal passed over the day before.                          *)

\* the candidates ahead of position i
Ahead(cands, i) == {cands[j] : j \in 1..(i - 1)}

\* the actionable signals of the receiver's candidates without any record
NeverSeen(rd, u, s) ==
    /\ IsActionable(signals[s].action)
    /\ ~\E x \in BagToSet(rd) : x.receiver_id = u /\ x.signal_id = s

\* the fetch passes over candidate s with the quota exhausted
QuotaSkipped(res, s) ==
    /\ res.ok
    /\ ~res.meta.unlimited
    /\ res.meta.remaining = Some(0)
    /\ s \in Range(res.candidates)
    /\ s \notin Range(res.delivered)
    /\ NeverSeen(reads, res.receiver, s)

\* the fetch reaches position i of its candidates within the limit and with
\* quota left: fewer than limit candidates ahead, fewer uncharged actionable
\* ones ahead than the remaining quota
ReachedWithQuota(token, limit, cands, i) ==
    /\ i - 1 < limit
    /\ Cardinality({c \in Ahead(cands, i) :
           /\ IsActionable(signals[c].action)
           /\ ~_was_read_by_token(reads, tokens[token].user_id, c,
                                  hash_token_for_read(token))})
         < RemainingToday(token)

C22_SkippedStaysUnseen ==
    \A t \in TokenStrings, l \in Limits :
        LET res == Deliver(t, l) IN
        \A s \in DOMAIN signals :
            QuotaSkipped(res, s) => NeverSeen(res.rd, res.receiver, s)

C22_ReachedIsChargedOnce ==
    \A t \in DOMAIN tokens, l \in Limits :
        LET res == Deliver(t, l) IN
        (res.ok /\ tokens[t].is_active /\ FiniteToken(t)) =>
            \A i \in DOMAIN res.candidates :
                LET s == res.candidates[i] IN
                (/\ NeverSeen(reads, res.receiver, s)
                 /\ ReachedWithQuota(t, l, res.candidates, i))
                => /\ s \in Range(res.delivered)
                   /\ s \in ChargedToday(res.rd, res.receiver)
                   /\ CountRows(res.rd,
                        {x \in BagToSet(res.rd) :
                            x.receiver_id = res.receiver /\ x.signal_id = s}) = 1

C22_SkippedThenDeliveredLater ==
    C22_SkippedStaysUnseen /\ C22_ReachedIsChargedOnce

\* day 1: signal 1 was passed over on day 0, when the newer signal 2 took the
\* quota; a fetch now reaches it with quota available
C22_Witness ==
    /\ DayOf(now) = 1
    /\ Len(signals) >= 2
    /\ "t1" \in DOMAIN tokens /\ tokens["t1"].is_active /\ FiniteToken("t1")
    /\ users[R1].plan = "free"
    /\ NeverSeen(reads, R1, 1)
    /\ \E x \in BagToSet(reads) :
          x.receiver_id = R1 /\ x.signal_id = 2 /\ DayOf(x.read_at) = 0
    /\ IsActionable(signals[2].action)
    /\ LET res == Deliver("t1", MaxSignals) IN
       /\ res.ok
       /\ \E i \in DOMAIN res.candidates :
             /\ res.candidates[i] = 1
             /\ ReachedWithQuota("t1", MaxSignals, res.candidates, i)
       /\ 1 \in Range(res.delivered)
       /\ 1 \in ChargedToday(res.rd, R1)

-----------------------------------------------------------------------------
(* C23: every signal latest_signals_for_token returns, and every delivery    *)
(* record it creates, belongs to a sender the receiver is subscribed to at   *)
(* the time of the call; a receiver with no subscription is returned no      *)
(* signal and gets no delivery record.                                       *)

\* the senders receiver u follows now
FollowedBy(u) == {x[2] : x \in subscriptions_for_receiver(u)}

\* the delivery records a fetch with result res adds to the rows rd
CreatedBy(res, rd) == BagToSet(res.rd (-) rd)

C23_OnlySubscribedSenders ==
    \A t \in PublishTokens, l \in Limits :
        LET res == Deliver(t, l) IN
        res.ok =>
            /\ \A s \in Range(res.delivered) :
                  signals[s].user_id \in FollowedBy(res.receiver)
            /\ \A x \in CreatedBy(res, reads) :
                  /\ x.receiver_id = res.receiver
                  /\ signals[x.signal_id].user_id \in FollowedBy(res.receiver)
            /\ FollowedBy(res.receiver) = {} =>
                  res.delivered = <<>> /\ res.rd = reads

\* r1 follows the sender alone while the other publisher has a signal too: the
\* fetch returns and records the sender's signal and not the other one; and
\* the other publisher, who follows nobody, is returned nothing
C23_Witness ==
    /\ subs = {<<R1, SenderId>>}
    /\ \E a, b \in DOMAIN signals :
          /\ signals[a].user_id = SenderId
          /\ signals[b].user_id = R2
          /\ LET res == Deliver("t1", MaxSignals) IN
             /\ res.ok
             /\ a \in Range(res.delivered)
             /\ b \notin Range(res.delivered)
             /\ \E x \in CreatedBy(res, reads) : x.signal_id = a
    /\ Deliver("t2", MaxSignals).ok
    /\ Deliver("t2", MaxSignals).delivered = <<>>

-----------------------------------------------------------------------------
(* C24: the payment webhook authenticates first.  Unless the signature       *)
(* header equals the HMAC-SHA256 of the raw body under WEBHOOK_SECRET, the   *)
(* request is answered 401 and changes nothing: the token table (no purge,   *)
(* no rotation, no plan update), the users and the subscriptions are as      *)
(* before and WordPress is not called; with WEBHOOK_SECRET unset every       *)
(* request is answered so.                                                   *)

Authentic(secret, header_sig, payload) ==
    /\ secret # None
    /\ header_sig = Some(hmac_sha256(secret[1], payload))

\* the request changes nothing and calls nobody
NoStateChange(res) ==
    /\ res.users = users
    /\ res.tokens = tokens
    /\ res.subs = subs
    /\ ~res.notified

C24_UnauthenticRejectedWith401 ==
    \A secret \in WebhookSecrets, payload \in WebhookPayloads :
        \A sig \in WebhookSignatures(payload) :
            ~Authentic(secret, sig, payload) =>
                LET res == webhook_payment_approved(secret, sig, payload) IN
                res.status = 401 /\ NoStateChange(res)

-----------------------------------------------------------------------------
(* C25: the quota-check endpoints /auth/verify and /validate report          *)
(* remaining_today = max(0, daily_quota - used today) and consume nothing:   *)
(* a quota-check step creates no delivery record, leaves every receiver's    *)
(* usage of today unchanged, and leaves what a fetch delivers and reports    *)
(* as remaining exactly what it was before the step (so any number of such   *)
(* steps between two fetches changes nothing for the second fetch).          *)

\* a step of one of the two quota-check endpoints
QuotaCheckStep ==
    \/ \E t \in CheckTokens : AuthVerify(Some(t))
    \/ AuthVerify(None)
    \/ \E t \in CheckTokens \cup {""} : Validate(t)

\* what a successful check reports is the plan's quota less today's usage
ReportsRemaining ==
    \A t \in CheckTokens :
        /\ auth_verify(Some(t)).status = 200 /\ FiniteToken(t) =>
              auth_verify(Some(t)).remaining_today =
                  Some(Max(0, PlanDefault(normalize_plan(tokens[t].plan))
                              - Cardinality(ChargedToday(reads, tokens[t].user_id))))
        /\ validate_credentials(t).ok /\ FiniteToken(t) =>
              validate_credentials(t).remaining_today =
                  Some(Max(0, PlanDefault(normalize_plan(tokens[t].plan))
                              - Cardinality(ChargedToday(reads, tokens[t].user_id))))

C25_QuotaCheckChangesNoFetch ==
    [][/\ ReportsRemaining
       /\ QuotaCheckStep =>
            /\ reads' = reads
            /\ \A u \in UserIds :
                  ChargedToday(reads, u)' = ChargedToday(reads, u)
            /\ \A t \in CheckTokens, l \in Limits :
                  Deliver(t, l)' = Deliver(t, l)
      ]_vars

-----------------------------------------------------------------------------
(* C26: a token whose APIToken row is marked inactive does not resolve to a  *)
(* user in user_by_api_token, so latest_signals_for_token called with it     *)
(* fails with "Invalid or inactive API token" and records nothing, and no    *)
(* quota is sized from the plan of the inactive row.                         *)
InactiveToken(t) == t \in DOMAIN tokens /\ ~tokens[t].is_active

C26_InactiveTokenNeverResolves ==
    \A t \in RevokeTokens :
        InactiveToken(t) =>
            /\ user_by_api_token(t) = None
            /\ \A l \in Limits :
                  /\ ~Deliver(t, l).ok
                  /\ Deliver(t, l).error = "Invalid or inactive API token"
                  /\ Deliver(t, l).rd = reads

====
